---- MODULE Spec2Model ----
(***************************************************************************)
(* Model of the token-windowing datasets (src/train_lm.py), the cosine     *)
(* warmup learning-rate scheduler (src/modules/lr_scheduler.py) and the    *)
(* gradient-norm diagnostics of Wikitext103Model.training_step.            *)
(*                                                                         *)
(* Indices are Python's (0-based); a tensor is a TLA+ sequence, so the     *)
(* element at Python index k is seq[k + 1].  Floats are fixed-point         *)
(* integers in units of 1 / Scale.                                         *)
(*                                                                         *)
(* The three components share no state, so each has its own specification  *)
(* (SpecCorpus, SpecSched, SpecGrad) in which the other two stay idle.      *)
(***************************************************************************)
EXTENDS Integers, Sequences, FiniteSets

VARIABLES
    data,            \* the packed token buffer, a sequence of rows (torch.load)
    flat_data,       \* FlattenedWikitext103Dataset.data after torch.flatten
    stride,          \* FlattenedWikitext103Dataset.stride
    window_length,   \* FlattenedWikitext103Dataset.window_length
    num_tokens,      \* FlattenedWikitext103Dataset.num_tokens
    out,             \* what the last dataset / loss call gave back
    warmup,          \* CosineWarmupScheduler.warmup
    max_num_iters,   \* CosineWarmupScheduler.max_num_iters
    iters_kind,      \* whether max_num_iters is a Python number or a tensor
    base_lrs,        \* _LRScheduler.base_lrs, one per optimizer parameter group
    last_epoch,      \* _LRScheduler.last_epoch, the step counter
    lr,              \* the rate of each parameter group, as the scheduler set it
    lr_nan,          \* whether those rates are nan
    sched_pc,        \* "new", "ok", or the fault construction ended with
    params,          \* named_parameters(): name and gradient (or none) of each
    pindex,          \* position of the diagnostics loop in params
    total_norm,      \* training_step's total_norm
    layer_grad_norms,\* training_step's layer_grad_norms
    logged,          \* what training_step logged: grad_norm and layer_norm_i
    grad_pc          \* where training_step's diagnostics stand

corpusVars == <<data, flat_data, stride, window_length, num_tokens, out>>
schedVars  == <<warmup, max_num_iters, iters_kind, base_lrs, last_epoch, lr, lr_nan,
                sched_pc>>
gradVars   == <<params, pindex, total_norm, layer_grad_norms, logged, grad_pc>>

vars == <<corpusVars, schedVars, gradVars>>

\* ------------------------------------------------------------------ bounds
MaxCells  == 4     \* a small buffer holds at most this many tokens (rows * columns)
MaxTok    == 1     \* token ids of a small buffer are 0..MaxTok
MaxStride == 2     \* stride of a small flattened corpus is 1..MaxStride
MaxWin    == 3     \* window_length argument of a small flattened corpus is 0..MaxWin
MaxWarmup == 3     \* warmup argument of the scheduler is -1..MaxWarmup
MaxIters  == 4     \* max_iters argument of the scheduler is -1..MaxIters
MaxBaseLr == 2     \* base rate of a parameter group, in whole units, is 0..MaxBaseLr
MaxSteps  == 6     \* the scheduler is stepped at most this many times
MaxGrads  == 2     \* at most this many parameters hold a gradient
MaxGradVal == 1    \* a gradient is a 2-vector with entries 0..MaxGradVal

PadId     == 0     \* the pad id the tokenizer reports, handed to both datasets

\* ------------------------------------------------------- program constants
ValStride   == 256    \* stride of the validation corpus
ValWindow   == 512    \* window_length of the validation corpus
ContextLen  == 512    \* row length of the packed buffers (max_context_len)
NumLayers   == 12     \* hparams.num_layers
PiFixed     == 3142   \* torch.pi, in units of 1 / Scale

\* real numbers are fixed-point: the integer v stands for v / Scale
Scale == 10 ^ 3

\* ----------------------------------------------------------- tensor helpers
Min(a, b) == IF a < b THEN a ELSE b
Max(a, b) == IF a > b THEN a ELSE b

\* torch.flatten of a [R, L] tensor: the rows one after the other
RECURSIVE Flatten(_)
Flatten(rows) ==
    IF rows = <<>> THEN <<>> ELSE Head(rows) \o Flatten(Tail(rows))

\* t[k] for an integer k: Python's indexing, negative k counts from the end
InRange(t, k) == -Len(t) <= k /\ k < Len(t)
At(t, k) == IF k < 0 THEN t[k + Len(t) + 1] ELSE t[k + 1]

\* where t[k] reads, as a position from the front
Pos(t, k) == IF k < 0 THEN k + Len(t) ELSE k

\* t[a:b]: Python's slicing, bounds wrapped once and clamped, never a fault
SliceBound(t, k) == IF k < 0 THEN Max(k + Len(t), 0) ELSE Min(k, Len(t))
Slice(t, a, b) ==
    LET lo == SliceBound(t, a)
        hi == SliceBound(t, b)
    IN  IF lo >= hi THEN <<>> ELSE SubSeq(t, lo + 1, hi)

\* ------------------------------------------------------ Wikitext103Dataset
PackedLen(d) == Len(d) - 1

\* mutant: the last label is taken from the sample's own row
PackedGetItemOwnRow(d, idx) ==
    IF ~InRange(d, idx) \/ ~InRange(d, idx + 1)
    THEN [status |-> "IndexError", tokens |-> <<>>, last_label |-> 0, label_pos |-> 0]
    ELSE [status |-> "ok",
          tokens |-> At(d, idx),
          last_label |-> At(At(d, idx), 0),
          label_pos |-> Pos(d, idx + 1)]

\* __getitem__: data[idx] and data[idx+1][0], each an IndexError outside [-R, R)
PackedGetItem(d, idx) ==
    IF ~InRange(d, idx) \/ ~InRange(d, idx + 1)
    THEN [status |-> "IndexError", tokens |-> <<>>, last_label |-> 0, label_pos |-> 0]
    ELSE [status |-> "ok",
          tokens |-> At(d, idx),
          last_label |-> At(At(d, idx + 1), 0),
          label_pos |-> Pos(d, idx + 1)]

\* ------------------------------------------- FlattenedWikitext103Dataset
\* window_length if window_length else self.data.size(1); None and 0 are both
\* falsy, so the argument 0 stands for both
WindowLengthOf(arg, d) == IF arg = 0 THEN Len(d[1]) ELSE arg

\* for i in range(size): if data[i] == pad_id: break
\* self.num_tokens = i    -- the value the loop leaves in i: the first index
\* holding pad_id, or the last index of the buffer when the loop runs out
NumTokensOf(t, pad) ==
    LET hits == {i \in 0..(Len(t) - 1) : t[i + 1] = pad}
    IN  IF hits = {} THEN Len(t) - 1
        ELSE CHOOSE i \in hits : \A j \in hits : i <= j

\* mutant: the remainder is dropped
FlatLenFloor(n, w, s) == (n - w) \div s

\* mutant: one more window is always counted
FlatLenOver(n, w, s) == ((n - w) \div s) + 1

\* __len__: divmod(num_tokens - window_length, stride), rounded up
FlatLen(n, w, s) ==
    LET num_windows == n - w
        divisor     == num_windows \div s
        remainder   == num_windows % s
    IN  IF remainder = 0 THEN divisor ELSE divisor + 1

FlatGetItem(t, w, s, idx) ==
    LET strided_idx == idx * s
    IN  IF ~InRange(t, strided_idx + w)
        THEN [status |-> "IndexError", tokens |-> <<>>, last_label |-> 0, label_pos |-> 0]
        ELSE [status |-> "ok",
              tokens |-> Slice(t, strided_idx, strided_idx + w),
              last_label |-> At(t, strided_idx + w),
              label_pos |-> Pos(t, strided_idx + w)]

\* ------------------------------------------------------- _calculate_loss
\* labels = torch.cat([data[:, 1:], last_labels.unsqueeze(1)], dim=1), per sample
FullLabels(tokens, last_label) == Slice(tokens, 1, Len(tokens)) \o <<last_label>>

\* ------------------------------------------------------------ corpus state
Shapes == {rc \in (1..MaxCells) \X (1..MaxCells) : rc[1] * rc[2] <= MaxCells}

SmallBuffers ==
    UNION {[1..rc[1] -> [1..rc[2] -> 0..MaxTok]] : rc \in Shapes}

\* the validation-sized example: 2 rows of ContextLen tokens, padded from 1000 on
ExampleBuffer ==
    [r \in 1..2 |-> [c \in 1..ContextLen |->
        IF (r - 1) * ContextLen + (c - 1) >= 1000 THEN PadId ELSE PadId + 1 + (c % 2)]]

\* fields a call does not set stay 0 / empty
NoCall == [op |-> "none", idx |-> 0, status |-> "ok", value |-> 0,
           tokens |-> <<>>, last_label |-> 0, label_pos |-> 0, labels |-> <<>>]

Construct(d, s, warg) ==
    /\ data = d
    /\ stride = s
    /\ window_length = WindowLengthOf(warg, d)
    /\ flat_data = Flatten(d)
    /\ num_tokens = NumTokensOf(Flatten(d), PadId)
    /\ out = NoCall

\* the dense 5 x 8 buffer of the end-to-end scenario
ScenarioBuffer ==
    [r \in 1..5 |-> [c \in 1..8 |-> PadId + 1 + ((r * 8 + c) % 7)]]

InitDatasets ==
    \/ \E d \in SmallBuffers, s \in 1..MaxStride, warg \in 0..MaxWin :
           Construct(d, s, warg)
    \/ Construct(ExampleBuffer, ValStride, ValWindow)
    \/ \E s \in 1..MaxStride : Construct(ScenarioBuffer, s, 0)

Indices == -(MaxCells + 2) .. (MaxCells + 2)

CallPackedLen ==
    /\ out.op = "none"
    /\ out' = [NoCall EXCEPT !.op = "packed_len", !.value = PackedLen(data)]
    /\ UNCHANGED <<data, flat_data, stride, window_length, num_tokens, schedVars, gradVars>>

CallPackedGetItem ==
    \E idx \in Indices :
        LET r == PackedGetItem(data, idx)
        IN  /\ out.op = "none"
            /\ out' = [NoCall EXCEPT !.op = "packed_get", !.idx = idx,
                           !.status = r.status, !.tokens = r.tokens,
                           !.last_label = r.last_label, !.label_pos = r.label_pos]
            /\ UNCHANGED <<data, flat_data, stride, window_length, num_tokens, schedVars, gradVars>>

CallFlatLen ==
    /\ out.op = "none"
    /\ out' = [NoCall EXCEPT !.op = "flat_len",
                   !.value = FlatLen(num_tokens, window_length, stride)]
    /\ UNCHANGED <<data, flat_data, stride, window_length, num_tokens, schedVars, gradVars>>

CallFlatGetItem ==
    \E idx \in Indices :
        LET r == FlatGetItem(flat_data, window_length, stride, idx)
        IN  /\ out.op = "none"
            /\ out' = [NoCall EXCEPT !.op = "flat_get", !.idx = idx,
                           !.status = r.status, !.tokens = r.tokens,
                           !.last_label = r.last_label, !.label_pos = r.label_pos]
            /\ UNCHANGED <<data, flat_data, stride, window_length, num_tokens, schedVars, gradVars>>

\* training_step on a packed sample: the full-sequence labels of _calculate_loss
CalculateLossFull ==
    /\ out.op = "packed_get"
    /\ out.status = "ok"
    /\ out' = [out EXCEPT !.op = "loss_full",
                   !.labels = FullLabels(out.tokens, out.last_label)]
    /\ UNCHANGED <<data, flat_data, stride, window_length, num_tokens, schedVars, gradVars>>

\* validation_step on a flattened sample: sliding=True keeps the last label alone
CalculateLossSliding ==
    /\ out.op = "flat_get"
    /\ out.status = "ok"
    /\ out' = [out EXCEPT !.op = "loss_sliding", !.labels = <<out.last_label>>]
    /\ UNCHANGED <<data, flat_data, stride, window_length, num_tokens, schedVars, gradVars>>

\* the loader is done with what the call gave back and asks again
Release ==
    /\ out.op # "none"
    /\ out' = NoCall
    /\ UNCHANGED <<data, flat_data, stride, window_length, num_tokens, schedVars, gradVars>>

IdleCorpus ==
    /\ data = <<>> /\ flat_data = <<>> /\ stride = 1 /\ window_length = 0
    /\ num_tokens = 0 /\ out = NoCall

NextCorpus ==
    \/ CallPackedLen
    \/ CallPackedGetItem
    \/ CallFlatLen
    \/ CallFlatGetItem
    \/ CalculateLossFull
    \/ CalculateLossSliding
    \/ Release


\* ------------------------------------------------- CosineWarmupScheduler
\* A value of the factor computation is a record: kind says whether it is a
\* Python number ("number") or a tensor ("tensor"), nan whether a tensor holds
\* nan, v its fixed-point value.  max_iters is what the caller handed over: a
\* Python number, or a 0-dim tensor (iters_kind = "tensor").
Number(x)  == [kind |-> "number", nan |-> FALSE, v |-> x]
Tensor(x)  == [kind |-> "tensor", nan |-> FALSE, v |-> x]
NanTensor  == [kind |-> "tensor", nan |-> TRUE, v |-> 0]
Raise(err) == [status |-> err, nan |-> FALSE, value |-> 0]
Ok(x)      == [status |-> "ok", nan |-> FALSE, value |-> x]
OkNan      == [status |-> "ok", nan |-> TRUE, value |-> 0]

Abs(x) == IF x < 0 THEN -x ELSE x

\* cos(y) for 0 <= y <= pi / 2, by its series 1 - y^2/2! + y^4/4! - ... - y^10/10!
CosSeries(y) ==
    LET y2 == (y * y) \div Scale
        h5 == Scale - (y2 \div 90)
        h4 == Scale - (((y2 * h5) \div Scale) \div 56)
        h3 == Scale - (((y2 * h4) \div Scale) \div 30)
        h2 == Scale - (((y2 * h3) \div Scale) \div 12)
    IN  Scale - (((y2 * h2) \div Scale) \div 2)

\* the cosine of a finite tensor element: even, 2 pi periodic, mirrored at pi and
\* at pi / 2
CosValue(x) ==
    LET r == Abs(x) % (2 * PiFixed)
        m == IF r > PiFixed THEN 2 * PiFixed - r ELSE r
    IN  IF 2 * m > PiFixed THEN -CosSeries(PiFixed - m) ELSE CosSeries(m)

\* torch.cos(arg): a TypeError unless arg is a tensor; nan for nan and for inf
Cos(arg) ==
    IF arg.kind # "tensor" THEN Raise("TypeError")
    ELSE IF arg.nan THEN OkNan
    ELSE Ok(CosValue(arg.v))

\* a / b, b # 0, rounded towards minus infinity
Div(a, b) == IF b < 0 THEN (-a) \div (-b) ELSE a \div b

\* torch.pi * epoch / self.max_num_iters: between Python numbers a number, or a
\* ZeroDivisionError; over a tensor a tensor, nan or inf when the tensor is 0
Angle(epoch, max_iters, kind) ==
    IF kind = "number"
    THEN IF max_iters = 0 THEN Raise("ZeroDivisionError")
         ELSE [status |-> "ok", arg |-> Number(Div(PiFixed * epoch, max_iters))]
    ELSE IF max_iters = 0 THEN [status |-> "ok", arg |-> NanTensor]
         ELSE [status |-> "ok", arg |-> Tensor(Div(PiFixed * epoch, max_iters))]

\* lr_factor = 0.5 * (1 + torch.cos(torch.pi * epoch / self.max_num_iters))
CosFactor(epoch, max_iters, kind) ==
    LET x == Angle(epoch, max_iters, kind)
    IN  IF x.status # "ok" THEN Raise(x.status)
        ELSE LET c == Cos(x.arg)
             IN  IF c.status # "ok" THEN c
                 ELSE IF c.nan THEN OkNan
                 ELSE Ok((Scale + c.value) \div 2)

\* get_lr_factor: the cosine term, then for epoch <= warmup the ramp
\* epoch * 1.0 / warmup, a division of Python numbers
GetLrFactor(epoch, wu, max_iters, kind) ==
    LET lr_factor == CosFactor(epoch, max_iters, kind)
    IN  IF lr_factor.status # "ok" THEN lr_factor
        ELSE IF epoch <= wu
             THEN IF wu = 0 THEN Raise("ZeroDivisionError")
                  ELSE IF lr_factor.nan THEN OkNan
                  ELSE Ok((lr_factor.value * Div(epoch * Scale, wu)) \div Scale)
             ELSE lr_factor

\* get_lr: [base_lr * lr_factor for base_lr in self.base_lrs]
GetLr(bases, factor) == [g \in DOMAIN bases |-> bases[g] * factor]

IdleSched ==
    /\ warmup = 0 /\ max_num_iters = 0 /\ iters_kind = "number" /\ base_lrs = <<>>
    /\ last_epoch = -1 /\ lr = <<>> /\ lr_nan = FALSE /\ sched_pc = "new"

\* the arguments of a scheduler about to be constructed over an optimizer with the
\* two parameter groups of configure_optimizers
InitSched ==
    /\ warmup \in -1..MaxWarmup
    /\ max_num_iters \in -1..MaxIters
    /\ iters_kind \in {"number", "tensor"}
    /\ base_lrs \in [1..2 -> 0..MaxBaseLr]
    /\ last_epoch = -1
    /\ lr = [g \in 1..2 |-> base_lrs[g] * Scale]
    /\ lr_nan = FALSE
    /\ sched_pc = "new"

\* what a step to `epoch` leaves: the counter and the rates of get_lr, or the fault
\* get_lr_factor raised, which leaves the rates as they were
StepTo(epoch) ==
    LET f == GetLrFactor(epoch, warmup, max_num_iters, iters_kind)
    IN  IF f.status = "ok"
        THEN /\ last_epoch' = epoch
             /\ lr' = GetLr(base_lrs, f.value)
             /\ lr_nan' = f.nan
             /\ sched_pc' = "ok"
        ELSE /\ sched_pc' = f.status
             /\ UNCHANGED <<last_epoch, lr, lr_nan>>

\* __init__: stores the arguments; the base class then takes the initial step,
\* last_epoch = 0 and the rates of get_lr
SchedConstruct ==
    /\ sched_pc = "new"
    /\ StepTo(0)
    /\ UNCHANGED <<warmup, max_num_iters, iters_kind, base_lrs, corpusVars, gradVars>>

\* one scheduler step: last_epoch advances by one and get_lr sets the rates
SchedStep ==
    /\ sched_pc = "ok"
    /\ last_epoch < MaxSteps
    /\ StepTo(last_epoch + 1)
    /\ UNCHANGED <<warmup, max_num_iters, iters_kind, base_lrs, corpusVars, gradVars>>

NextSched ==
    \/ SchedConstruct
    \/ SchedStep

\* ---------------------------------- training_step: gradient-norm diagnostics
Digits == <<"0", "1", "2", "3", "4", "5", "6", "7", "8", "9">>

\* str(i) of f'...{i}', i >= 0
RECURSIVE Str(_)
Str(i) == IF i < 10 THEN <<Digits[i + 1]>> ELSE Str(i \div 10) \o <<Digits[(i % 10) + 1]>>

\* 'transformer.layers.', character by character
LayersPrefix ==
    <<"t", "r", "a", "n", "s", "f", "o", "r", "m", "e", "r", ".",
      "l", "a", "y", "e", "r", "s", ".">>

\* name.startswith(prefix)
StartsWith(name, prefix) ==
    /\ Len(prefix) <= Len(name)
    /\ SubSeq(name, 1, Len(prefix)) = prefix

\* the names named_parameters() yields: an embedding, two parameters of every
\* layer 0 .. num_layers - 1 in order, and the output head
LayerParamName(j, leaf) == LayersPrefix \o Str(j) \o <<".">> \o leaf
ParamNames ==
    [k \in 1..(2 * NumLayers + 2) |->
        IF k = 1 THEN <<"e", "m", "b", "e", "d", ".", "w">>
        ELSE IF k = 2 * NumLayers + 2 THEN <<"h", "e", "a", "d", ".", "w">>
        ELSE LayerParamName((k - 2) \div 2, IF k % 2 = 0 THEN <<"w">> ELSE <<"b">>)]

\* floor of the square root of n >= 0, by bisection on lo <= root < hi
RECURSIVE SqrtBetween(_, _, _)
SqrtBetween(n, lo, hi) ==
    IF hi - lo <= 1 THEN lo
    ELSE LET mid == (lo + hi) \div 2
         IN  IF mid * mid <= n THEN SqrtBetween(n, mid, hi) ELSE SqrtBetween(n, lo, mid)

\* x ** (1. / 2) of a fixed-point x >= 0
Sqrt(x) == SqrtBetween(x * Scale, 0, Min(x * Scale, 2 ^ 15) + 1)

\* p.grad.norm(2): the root of the sum of the squared entries
Norm2(g) == Sqrt((g[1] * g[1] + g[2] * g[2]) * Scale)

\* p.grad.detach().data.norm(2).item() ** 2
ParamNorm(g) == (Norm2(g) * Norm2(g)) \div Scale

\* for i in range(num_layers): if name.startswith(f'transformer.layers.{i}'): ... break
\* -- the first i that matches, or -1 when none does
MatchingLayers(name) ==
    {i \in 0..(NumLayers - 1) : StartsWith(name, LayersPrefix \o Str(i))}
LayerOf(name) ==
    IF MatchingLayers(name) = {} THEN -1
    ELSE CHOOSE i \in MatchingLayers(name) : \A j \in MatchingLayers(name) : i <= j

GradVectors == [1..2 -> 0..MaxGradVal]

IdleGrad ==
    /\ params = <<>> /\ pindex = 0 /\ total_norm = 0 /\ layer_grad_norms = <<>>
    /\ logged = [grad_norm |-> 0, layer_norms |-> <<>>] /\ grad_pc = "idle"

\* after backward: at most MaxGrads parameters hold a gradient; total_norm = 0.0 and
\* layer_grad_norms = [0.0] * num_layers as the diagnostics start
InitGrad ==
    /\ \E pick \in [1..MaxGrads -> 0..(2 * NumLayers + 2)] :
         LET holders == {pick[n] : n \in 1..MaxGrads} \ {0}
         IN  \E gs \in [holders -> GradVectors] :
               params = [k \in 1..(2 * NumLayers + 2) |->
                   IF k \in holders
                   THEN [name |-> ParamNames[k], has |-> TRUE, grad |-> gs[k]]
                   ELSE [name |-> ParamNames[k], has |-> FALSE, grad |-> <<0, 0>>]]
    /\ pindex = 1
    /\ total_norm = 0
    /\ layer_grad_norms = [i \in 1..NumLayers |-> 0]
    /\ logged = [grad_norm |-> 0, layer_norms |-> <<>>]
    /\ grad_pc = "loop"

\* one pass of the loop over named_parameters(): a parameter without a gradient
\* is skipped, any other adds its squared norm to the total and to its layer
AccumulateParam ==
    /\ grad_pc = "loop"
    /\ pindex <= Len(params)
    /\ LET p == params[pindex]
           param_norm == ParamNorm(p.grad)
           i == LayerOf(p.name)
       IN  IF p.has
           THEN /\ total_norm' = total_norm + param_norm
                /\ layer_grad_norms' =
                       IF i >= 0
                       THEN [layer_grad_norms EXCEPT ![i + 1] = @ + param_norm]
                       ELSE layer_grad_norms
           ELSE UNCHANGED <<total_norm, layer_grad_norms>>
    /\ pindex' = pindex + 1
    /\ UNCHANGED <<params, logged, grad_pc, corpusVars, schedVars>>

\* for norm in layer_grad_norms: norm = norm ** (1. / 2)   -- rebinds the loop
\* variable, the list keeps its entries;  total_norm = total_norm ** (1. / 2)
TakeRoots ==
    /\ grad_pc = "loop"
    /\ pindex > Len(params)
    /\ total_norm' = Sqrt(total_norm)
    /\ grad_pc' = "roots"
    /\ UNCHANGED <<params, pindex, layer_grad_norms, logged, corpusVars, schedVars>>

\* self.log("grad_norm", total_norm) and self.log(f"layer_norm_{i}", norm)
LogNorms ==
    /\ grad_pc = "roots"
    /\ logged' = [grad_norm |-> total_norm, layer_norms |-> layer_grad_norms]
    /\ grad_pc' = "logged"
    /\ UNCHANGED <<params, pindex, total_norm, layer_grad_norms, corpusVars, schedVars>>

NextGrad ==
    \/ AccumulateParam
    \/ TakeRoots
    \/ LogNorms

\* ---------------------------------------------------------- specifications
InitCorpus == InitDatasets /\ IdleSched /\ IdleGrad
SpecCorpus == InitCorpus /\ [][NextCorpus]_vars

InitScheduler == IdleCorpus /\ InitSched /\ IdleGrad
SpecSched == InitScheduler /\ [][NextSched]_vars

InitDiagnostics == IdleCorpus /\ IdleSched /\ InitGrad
SpecGrad == InitDiagnostics /\ [][NextGrad]_vars




\* ------------------------------------------------------------ corpus claims
FirstPadIndices == {i \in 0..(Len(flat_data) - 1) : flat_data[i + 1] = PadId}

\* C1: for num_tokens >= window_length and stride >= 1, length() of the flattened
\* corpus is ceil((num_tokens - window_length) / stride), the least q with
\* q * stride >= num_tokens - window_length; 1000 / 512 / 256 gives 2.
C1_FlatLenIsCeil ==
    (out.op = "flat_len" /\ num_tokens >= window_length) =>
        /\ out.value * stride >= num_tokens - window_length
        /\ (out.value - 1) * stride < num_tokens - window_length
        /\ (num_tokens = 1000 /\ window_length = 512 /\ stride = 256) => out.value = 2

C1_Witness ==
    /\ out.op = "flat_len"
    /\ num_tokens = 1000 /\ window_length = ValWindow /\ stride = ValStride
    /\ out.value = 2

\* C2: for 0 <= i < length(), get(i) of the flattened corpus succeeds and reads its
\* label at i * stride + window_length, a position strictly below num_tokens, so
\* the label is never a pad token.
C2_LabelBelowNumTokens ==
    (/\ out.op \in {"flat_get", "loss_sliding"}
     /\ 0 <= out.idx
     /\ out.idx < FlatLen(num_tokens, window_length, stride)) =>
        /\ out.status = "ok"
        /\ out.label_pos = out.idx * stride + window_length
        /\ out.label_pos < num_tokens
        /\ out.last_label = flat_data[out.label_pos + 1]
        /\ out.last_label # PadId

C2_Witness ==
    /\ out.op = "flat_get"
    /\ out.idx > 0
    /\ out.idx = FlatLen(num_tokens, window_length, stride) - 1
    /\ FirstPadIndices # {}
    /\ out.label_pos = num_tokens - 1

\* C3: the packed corpus of R rows by L columns has length R - 1, and for
\* 0 <= i < R - 1 get(i) gives row i as input and, assembled by the loss, a label
\* whose first L - 1 tokens are the input's last L - 1 tokens and whose last token
\* is the first token of row i + 1.
C3_PackedSample ==
    /\ out.op = "packed_len" => out.value = Len(data) - 1
    /\ (out.op \in {"packed_get", "loss_full"} /\ 0 <= out.idx /\ out.idx < Len(data) - 1) =>
           /\ out.status = "ok"
           /\ out.tokens = data[out.idx + 1]
           /\ out.last_label = data[out.idx + 2][1]
    /\ (out.op = "loss_full" /\ 0 <= out.idx /\ out.idx < Len(data) - 1) =>
           LET L == Len(data[1])
           IN  /\ Len(out.labels) = L
               /\ \A j \in 1..(L - 1) : out.labels[j] = data[out.idx + 1][j + 1]
               /\ out.labels[L] = data[out.idx + 2][1]

C3_Witness ==
    /\ out.op = "loss_full"
    /\ Len(data) = 5 /\ Len(data[1]) = 8
    /\ out.idx = 0
    /\ out.labels = SubSeq(data[1], 2, 8) \o <<data[2][1]>>
    /\ data[2][1] # data[1][1]

\* C4: num_tokens is the index of the first pad token of the flattened buffer,
\* and the buffer length when the buffer holds no pad token.
C4_NumTokensFirstPad ==
    /\ \A j \in 0..(num_tokens - 1) : flat_data[j + 1] # PadId
    /\ IF FirstPadIndices = {} THEN num_tokens = Len(flat_data)
       ELSE num_tokens \in FirstPadIndices

\* C5: get(i) with an out-of-range index fails with IndexError: on the packed
\* corpus every i outside [0, R - 1), on the flattened corpus every i < 0 and every
\* i with i * stride + window_length >= num_tokens.
C5_OutOfRangeFails ==
    /\ (out.op = "packed_get" /\ (out.idx < 0 \/ out.idx >= Len(data) - 1)) =>
           out.status = "IndexError"
    /\ (out.op = "flat_get" /\
          (out.idx < 0 \/ out.idx * stride + window_length >= num_tokens)) =>
           out.status = "IndexError"

\* C6: when num_tokens < window_length the flattened corpus reports length 0 or a
\* fault, never a negative length.
C6_ShortSpanLengthZero ==
    (out.op = "flat_len" /\ num_tokens < window_length) =>
        (out.status # "ok" \/ out.value = 0)

\* --------------------------------------------------------- scheduler claims
\* C7: a scheduler given warmup_steps <= 0 or total_steps <= 0 is refused at
\* construction by an explicit guard, as a configuration error (ValueError); it is
\* neither accepted nor left to a division fault.
C7_BadConfigRefused ==
    (sched_pc # "new" /\ (warmup <= 0 \/ max_num_iters <= 0)) => sched_pc = "ValueError"

\* the factor's shape, where get_lr_factor gave a finite factor for last_epoch
FactorShape ==
    LET c == CosFactor(last_epoch, max_num_iters, iters_kind).value
    IN  /\ ~lr_nan
        /\ \A g \in DOMAIN base_lrs :
              /\ last_epoch = 0 => lr[g] = 0
              /\ last_epoch >= warmup => lr[g] = base_lrs[g] * c
              /\ last_epoch <= warmup =>
                     lr[g] = base_lrs[g] * ((c * ((last_epoch * Scale) \div warmup)) \div Scale)

\* C8: for warmup_steps > 0 (and total_steps > 0) the scheduler is constructed and
\* its factor is the cosine value times step / warmup_steps up to warmup_steps and
\* the cosine value alone after it: 0 at step 0, the unscaled cosine value at step
\* warmup_steps, every group's rate its base rate times the factor of last_epoch.
C8_FactorShape ==
    (sched_pc # "new" /\ warmup > 0 /\ max_num_iters > 0) =>
        (sched_pc = "ok" /\ FactorShape)

\* the same shape holds wherever the factor is computed at all: max_iters a
\* non-zero tensor, so that torch.cos is handed a tensor
FactorShapeOnTensor ==
    (sched_pc # "new" /\ warmup > 0 /\ max_num_iters # 0 /\ iters_kind = "tensor") =>
        (sched_pc = "ok" /\ FactorShape)

\* ------------------------------------------------------- diagnostics claims
GradHolders == {k \in DOMAIN params : params[k].has}
ParamsOfLayer(k) ==
    {j \in DOMAIN params : StartsWith(params[j].name, LayersPrefix \o Str(k) \o <<".">>)}

RECURSIVE SumParamNorms(_)
SumParamNorms(S) ==
    IF S = {} THEN 0
    ELSE LET j == CHOOSE x \in S : TRUE
         IN  ParamNorm(params[j].grad) + SumParamNorms(S \ {j})

\* C9: when only the parameters of one layer k hold a gradient, the per-layer norms
\* are zero at every index but k and the global norm is the norm of those gradients.
C9_OnlyLayerK ==
    \A k \in 0..(NumLayers - 1) :
        (grad_pc = "logged" /\ GradHolders # {} /\ GradHolders \subseteq ParamsOfLayer(k)) =>
            /\ \A i \in 0..(NumLayers - 1) : i # k => logged.layer_norms[i + 1] = 0
            /\ logged.grad_norm = Sqrt(SumParamNorms(GradHolders))

\* C10: the value logged for layer i is the L2 norm of the gradients attributed to
\* it, the square root of the sum of their squared norms, as grad_norm is for all.
C10_LayerNormIsRoot ==
    grad_pc = "logged" =>
        \A i \in 0..(NumLayers - 1) :
            logged.layer_norms[i + 1] =
                Sqrt(SumParamNorms({j \in GradHolders : LayerOf(params[j].name) = i}))

====
